---- MODULE Spec2Model ----
(***************************************************************************)
(* Model of midas.py: the two request helpers with their fixed-count       *)
(* retry, the per-account workflow process_init_data and the outer driver  *)
(* main.  The program is single-threaded; pc is its position.  The remote  *)
(* service and the credential file are the environment: every transport    *)
(* attempt picks its outcome from the outcomes the service can produce.    *)
(*                                                                         *)
(* Python values are modelled by their kind and by what the code asks of   *)
(* them: truthiness, whether they have a .get method, whether they can be  *)
(* sliced.  A JSON object is a function from its keys to values; a field   *)
(* that is present carries a value of the type the code uses it at.        *)
(***************************************************************************)
EXTENDS Integers, Sequences, FiniteSets, TLC

\* ---- bounds of the model ------------------------------------------------
MaxRetriesCfg == 1      \* MAX_RETRIES is configured in 0..MaxRetriesCfg
MaxLines == 2           \* lines of the credential file
MaxTickets == 3         \* largest ticket count the user endpoint reports

\* ---- Python values ------------------------------------------------------
EmptyDict == [k \in {} |-> 0]
NoneV == [kind |-> "none", size |-> 0, d |-> EmptyDict]
StrV(n) == [kind |-> "str", size |-> n, d |-> EmptyDict]
DictV(f) == [kind |-> "dict", size |-> Cardinality(DOMAIN f), d |-> f]

\* bool(v): None, "" and {} are falsy
Truthy(v) == v.kind # "none" /\ v.size > 0
\* v has a .get method (only dict has)
HasGet(v) == v.kind = "dict"
\* v[-20:] is defined (a str; a dict raises)
Sliceable(v) == v.kind = "str"
\* dict.get(key, default)
Get(v, key, default) == IF key \in DOMAIN v.d THEN v.d[key] ELSE default

\* ---- the credential file and read_init_data ------------------------------
Whitespace == {" "}
\* lines a credential file is made of: empty, blank, a credential, and a
\* credential with surrounding whitespace
Lines == {<<>>, <<" ">>, <<"a">>, <<" ", "b", " ">>}
Missing == [exists |-> FALSE, lines |-> <<>>]
Files ==
  {Missing} \cup
  {[exists |-> TRUE, lines |-> ls] : ls \in UNION {[1..k -> Lines] : k \in 0..MaxLines}}

RECURSIVE lstrip(_)
lstrip(s) == IF s # <<>> /\ Head(s) \in Whitespace THEN lstrip(Tail(s)) ELSE s
RECURSIVE rstrip(_)
rstrip(s) ==
  IF s # <<>> /\ s[Len(s)] \in Whitespace THEN rstrip(SubSeq(s, 1, Len(s) - 1)) ELSE s
\* str.strip()
strip(s) == rstrip(lstrip(s))

\* [line.strip() for line in file]: blank lines are kept (a faulty variant)
RECURSIVE strip_all(_)
strip_all(ls) == IF ls = <<>> THEN <<>> ELSE <<strip(Head(ls))>> \o strip_all(Tail(ls))
\* [line.strip() for line in file if line.strip()]
RECURSIVE strip_nonblank(_)
strip_nonblank(ls) ==
  IF ls = <<>> THEN <<>>
  ELSE IF strip(Head(ls)) # <<>>
       THEN <<strip(Head(ls))>> \o strip_nonblank(Tail(ls))
       ELSE strip_nonblank(Tail(ls))

read_init_data_keep_blank(f) == IF f.exists THEN strip_all(f.lines) ELSE <<>>
read_init_data(f) == IF f.exists THEN strip_nonblank(f.lines) ELSE <<>>

\* ---- the remote service --------------------------------------------------
Endpoints ==
  {"register", "streak", "streak_claim", "referral_status", "referral_claim",
   "user", "play"}
PointsVals == {0, 10}

\* JSON objects an endpoint may answer with (the empty object among them)
Objects(u) ==
  {EmptyDict} \cup
  CASE u = "register" -> {[token |-> 1]}
    [] u = "streak" -> {[streakDaysCount |-> 1]} \cup
                       {[claimable |-> b] : b \in BOOLEAN}
    [] u = "streak_claim" -> {[points |-> 10, tickets |-> 1]}
    [] u = "referral_status" -> {[referrals |-> 1]} \cup
                                {[canClaim |-> b] : b \in BOOLEAN}
    [] u = "referral_claim" -> {[totalPoints |-> 10, totalTickets |-> 1], [totalPoints |-> 10]}
    [] u = "user" -> {[username |-> 1]} \cup
                     {[tickets |-> n, points |-> 10] : n \in 0..MaxTickets}
    [] OTHER -> {[gamesPlayed |-> 1]} \cup {[points |-> p] : p \in PointsVals}

\* what response.json() can return: null, a string or an object
JsonValues(u) == {NoneV, StrV(1)} \cup {DictV(f) : f \in Objects(u)}

\* one transport attempt: it fails (an exception, or a non-2xx status caught by
\* raise_for_status), or it is a 2xx whose body is JSON or is not
Outcomes(u) ==
  {[status |-> "fail", body |-> NoneV]} \cup
  {[status |-> "json", body |-> v] : v \in JsonValues(u)} \cup
  {[status |-> "nonjson", body |-> StrV(n)] : n \in {0, 1}}

\* ---- state ---------------------------------------------------------------
VARIABLES
  file,             \* the credential file AUTH_FILE on disk
  MAX_RETRIES,      \* the configured retry limit (module global)
  init_data_list,   \* main's list of credentials
  pc,               \* position of the program
  idx,              \* index in init_data_list of the for loop of main
  method, url,      \* the request helper being run and its endpoint
  retries,          \* its parameter retries (the recursion depth)
  hstate,           \* "idle", "running" or "returned"
  response,         \* first component of what the helper returned
  cookies,          \* second component of what post_request returned
  attempts,         \* transport calls made by the current helper call
  waits,            \* time.sleep(5) calls made by the current helper call
  lastOutcome,      \* outcome of its latest transport attempt
  body,             \* what its latest transport attempt produced
  waited,           \* seconds the current helper call has slept in all
  headers,          \* the session the current helper call sends: its parameter headers
  calls,            \* helper calls per endpoint in the current account's pass
  order,            \* the endpoints of those calls, in the order they were made
  headers_user,     \* process_init_data's headers_user as last built
  referral_seen,    \* what the referral status said of canClaim, "unset" before
  claim_response,   \* check_referral_status's local claim_response
  referral_result,  \* what check_referral_status returned, until it is dropped
  auth_result,      \* how the auth call of the pass ended, "unset" before
  streak_seen,      \* what the streak response said of claimable, "unset" before
  user_tickets,     \* tickets as returned by get_user_info
  tickets,          \* play_game's local tickets
  total_points,     \* play_game's local total_points
  earned,           \* points_earned of each successful play, in order
  play_break,       \* why play_game left its loop by break, "none" if not
  acctSleeps,       \* sleeps of SLEEP_BETWEEN_ACCOUNTS since the last pass began
  runSleeps,        \* sleeps of SLEEP_BETWEEN_RUNS since the last pass began
  lastProcessed,    \* index of the credential processed last, 0 if none yet
  processed,        \* credentials process_init_data was called with in this pass
  everRequested,    \* some transport call was made
  everSlept,        \* some time.sleep call was made
  raisedIn,         \* the function an uncaught exception was raised in
  raiseCause        \* kind of the value that made it raise

helperVars ==
  <<method, url, retries, hstate, response, cookies, attempts, waits, lastOutcome,
    body, waited, headers>>
referralVars == <<referral_seen, claim_response, referral_result>>
passVars ==
  <<calls, order, headers_user, referralVars, auth_result, streak_seen,
    user_tickets, tickets, total_points, earned, play_break>>
sleepVars == <<acctSleeps, runSleeps>>
configVars == <<file, MAX_RETRIES>>
raiseVars == <<raisedIn, raiseCause>>
vars ==
  <<file, MAX_RETRIES, init_data_list, pc, idx, method, url, retries, hstate,
    response, cookies, attempts, waits, lastOutcome, body, waited, calls,
    auth_result,
    streak_seen,
    user_tickets, tickets, total_points, earned, play_break, acctSleeps,
    runSleeps, lastProcessed, everRequested, everSlept, raisedIn, raiseCause,
    headers, order, headers_user, referral_seen, claim_response,
    referral_result, processed>>

NoCalls == [u \in Endpoints |-> 0]
\* no Authorization and no Cookie header: headers_register, and no headers_user yet
NoSession == [token |-> <<0, 0>>, cookies |-> <<0, 0>>]
\* check_referral_status has not returned
NoResult == [set |-> FALSE, points |-> 0, tickets |-> 0]
\* return total_points, total_tickets
Result(p, t) == [set |-> TRUE, points |-> p, tickets |-> t]
GetEndpoints == {"streak", "referral_status", "user"}
PostEndpoints == Endpoints \ GetEndpoints
Terminal == {"exited", "crashed", "interrupted"}

Init ==
  /\ file \in Files
  /\ MAX_RETRIES \in 0..MaxRetriesCfg
  /\ init_data_list = <<>>
  /\ pc = "main"
  /\ idx = 0
  /\ method = "-" /\ url = "-" /\ retries = 0 /\ hstate = "idle"
  /\ response = NoneV /\ cookies = "None"
  /\ attempts = 0 /\ waits = 0 /\ lastOutcome = "none"
  /\ body = NoneV /\ waited = 0
  /\ headers = NoSession
  /\ calls = NoCalls
  /\ order = <<>>
  /\ headers_user = NoSession
  /\ referral_seen = "unset" /\ claim_response = NoneV /\ referral_result = NoResult
  /\ processed = <<>>
  /\ auth_result = "unset"
  /\ streak_seen = "unset"
  /\ user_tickets = 0 /\ tickets = 0 /\ total_points = 0 /\ earned = <<>>
  /\ play_break = "none"
  /\ acctSleeps = 0 /\ runSleeps = 0 /\ lastProcessed = 0
  /\ everRequested = FALSE /\ everSlept = FALSE
  /\ raisedIn = "none" /\ raiseCause = "none"

\* ---- the request helpers --------------------------------------------------
\* a workflow step calls post_request or get_request with retries = 0
Call(m, u, h, base) ==
  /\ pc' = u
  /\ method' = m /\ url' = u /\ retries' = 0 /\ hstate' = "running"
  /\ response' = NoneV /\ cookies' = "None"
  /\ attempts' = 0 /\ waits' = 0 /\ lastOutcome' = "none"
  /\ body' = NoneV /\ waited' = 0
  /\ headers' = h
  /\ calls' = [base EXCEPT ![u] = @ + 1]
  /\ order' = IF base = NoCalls THEN <<u>> ELSE Append(order, u)

\* the helper's frame is gone once its caller has used the result
Idle ==
  /\ method' = "-" /\ url' = "-" /\ retries' = 0 /\ hstate' = "idle"
  /\ response' = NoneV /\ cookies' = "None"
  /\ attempts' = 0 /\ waits' = 0 /\ lastOutcome' = "none"
  /\ body' = NoneV /\ waited' = 0
  /\ headers' = NoSession

\* the except branch retries once more than the limit (a faulty variant)
ShouldRetryInclusive(r) == r <= MAX_RETRIES
\* if retries < MAX_RETRIES
ShouldRetry(r) == r < MAX_RETRIES

\* get_request hands the raw text back like post_request (a faulty variant)
GetNonJsonText(text) == text
\* except ValueError: return response.text, response.cookies
PostNonJson(text) == text
\* except ValueError: logger.warning(...); return None
GetNonJson(text) == NoneV

\* time.sleep(5 * retries): no wait before the first retry (a faulty variant)
RetryDelayByRetries(r) == 5 * r
\* time.sleep(5)
RetryDelay(r) == 5

\* lines 39-46 and 60-67: the except branch of a helper, after a transport
\* call that raised or whose status raise_for_status rejected
ExceptBranch ==
  IF ShouldRetry(retries)
  THEN /\ waits' = waits + 1
       /\ waited' = waited + RetryDelay(retries)
       /\ everSlept' = TRUE
       /\ retries' = retries + 1
       /\ UNCHANGED <<hstate, response, cookies>>
  ELSE /\ hstate' = "returned"
       /\ response' = NoneV
       /\ cookies' = "None"
       /\ UNCHANGED <<waits, waited, everSlept, retries>>

\* lines 29-46: one invocation of post_request (one level of its recursion)
post_request ==
  /\ hstate = "running" /\ method = "POST"
  /\ \E o \in Outcomes(url) :
       /\ attempts' = attempts + 1
       /\ lastOutcome' = o.status
       /\ body' = o.body
       /\ everRequested' = TRUE
       /\ IF o.status = "fail"
          THEN ExceptBranch
          ELSE /\ hstate' = "returned"
               /\ response' = IF o.status = "json" THEN o.body ELSE PostNonJson(o.body)
               /\ cookies' = "jar"
               /\ UNCHANGED <<waits, waited, everSlept, retries>>
  /\ UNCHANGED <<configVars, init_data_list, pc, idx, method, url, headers, passVars,
                 sleepVars, lastProcessed, processed, raiseVars>>

\* lines 49-67: one invocation of get_request (one level of its recursion)
get_request ==
  /\ hstate = "running" /\ method = "GET"
  /\ \E o \in Outcomes(url) :
       /\ attempts' = attempts + 1
       /\ lastOutcome' = o.status
       /\ body' = o.body
       /\ everRequested' = TRUE
       /\ IF o.status = "fail"
          THEN ExceptBranch
          ELSE /\ hstate' = "returned"
               /\ response' = IF o.status = "json" THEN o.body ELSE GetNonJson(o.body)
               /\ cookies' = "None"
               /\ UNCHANGED <<waits, waited, everSlept, retries>>
  /\ UNCHANGED <<configVars, init_data_list, pc, idx, method, url, headers, passVars,
                 sleepVars, lastProcessed, processed, raiseVars>>

\* ---- the per-account workflow ----------------------------------------------
\* an exception nothing catches below __main__: it is logged and the process ends
Raise(where) ==
  /\ pc' = "crashed"
  /\ raisedIn' = where
  /\ raiseCause' = IF lastOutcome = "nonjson" THEN "text" ELSE response.kind
  /\ Idle

\* process_init_data returns to the for loop of main
Return ==
  /\ pc' = "sleep_accounts"
  /\ lastProcessed' = idx
  /\ Idle

\* what the streak response says of its flag
FlagOf(v, key) ==
  IF HasGet(v) /\ key \in DOMAIN v.d THEN (IF v.d[key] THEN "true" ELSE "false")
  ELSE "absent"

\* the token test lets every response through (a faulty variant)
AuthOkAlways(v) == TRUE
\* if response_text:
AuthOk(v) == Truthy(v)

\* the flag defaults to claimable (a faulty variant)
StreakClaimableDefaultTrue(v) == Get(v, "claimable", TRUE)
\* claimable = streak_data.get("claimable", False)
StreakClaimable(v) == Get(v, "claimable", FALSE)

\* total_points = points_earned (a faulty variant)
AccumulateLast(total, p) == p
\* total_points += points_earned
Accumulate(total, p) == total + p

\* the loop goes round once more at tickets = 0 (a faulty variant)
PlayAgainInclusive(t) == t >= 0
\* while tickets > 0
PlayAgain(t) == t > 0

\* the error branch goes round the loop again (a faulty variant)
AfterPlayErrorContinue(t) == t > 0
\* break  # Exit the loop if there's an error
AfterPlayError(t) == FALSE

\* lines 204-218: a new pass for init_data_list[idx] starts with the auth call
process_init_data ==
  /\ pc = "for"
  /\ Call("POST", "register", NoSession, NoCalls)
  /\ auth_result' = "unset" /\ streak_seen' = "unset"
  /\ user_tickets' = 0 /\ tickets' = 0 /\ total_points' = 0 /\ earned' = <<>>
  /\ play_break' = "none"
  /\ acctSleeps' = 0 /\ runSleeps' = 0
  /\ referral_seen' = "unset" /\ claim_response' = NoneV /\ referral_result' = NoResult
  /\ processed' = Append(processed, init_data_list[idx])
  /\ UNCHANGED <<configVars, init_data_list, idx, headers_user, lastProcessed,
                 everRequested, everSlept, raiseVars>>

\* the session the auth call of this pass returned: its token and cookies are
\* named after the call, so that those of another credential, and those of the
\* first and of a later pass, differ
Issued == <<idx, lastProcessed>>

\* a session once built is used for ever (a faulty variant)
HeadersUserCached(old, token, jar) ==
  IF old = NoSession THEN [token |-> token, cookies |-> jar] ELSE old
\* lines 226-233: headers_user = {"Authorization": f"Bearer {token}", "Cookie": ...}
HeadersUser(old, token, jar) == [token |-> token, cookies |-> jar]

\* lines 220-235 and 245, up to get_streak_info's get_request
process_init_data_token ==
  /\ pc = "register" /\ hstate = "returned"
  /\ auth_result' = IF lastOutcome = "fail" THEN "failed"
                    ELSE IF Truthy(response) THEN "ok" ELSE "empty"
  /\ IF AuthOk(response)
     THEN IF Sliceable(response)
          THEN /\ headers_user' = HeadersUser(headers_user, Issued, Issued)
               /\ Call("GET", "streak", HeadersUser(headers_user, Issued, Issued), calls)
               /\ UNCHANGED <<lastProcessed, raiseVars>>
          ELSE /\ Raise("process_init_data")
               /\ UNCHANGED <<calls, order, headers_user, lastProcessed>>
     ELSE /\ Return
          /\ UNCHANGED <<calls, order, headers_user, raiseVars>>
  /\ UNCHANGED <<configVars, init_data_list, processed, idx, referralVars, streak_seen, user_tickets,
                 tickets, total_points, earned, play_break, sleepVars,
                 everRequested, everSlept>>

\* the referral step is left out: get_user_info follows the streak (a faulty variant)
StepAfterStreakSkip == "user"
\* lines 235-236: check_referral_status(headers_user) follows get_streak_info
StepAfterStreak == "referral_status"

\* lines 86-102: claim_streak's post_request, or on to check_referral_status
get_streak_info ==
  /\ pc = "streak" /\ hstate = "returned"
  /\ streak_seen' = IF Truthy(response) THEN FlagOf(response, "claimable") ELSE "failed"
  /\ IF Truthy(response) /\ ~HasGet(response)
     THEN /\ Raise("get_streak_info")
          /\ UNCHANGED <<calls, order>>
     ELSE /\ IF Truthy(response) /\ StreakClaimable(response)
             THEN Call("POST", "streak_claim", headers_user, calls)
             ELSE Call("GET", StepAfterStreak, headers_user, calls)
          /\ UNCHANGED raiseVars
  /\ UNCHANGED <<configVars, init_data_list, processed, idx, headers_user, auth_result, user_tickets,
                 referralVars, tickets, total_points, earned, play_break, sleepVars,
                 lastProcessed, everRequested, everSlept>>

\* lines 110-115, then check_referral_status's get_request
claim_streak ==
  /\ pc = "streak_claim" /\ hstate = "returned"
  /\ IF Truthy(response) /\ ~HasGet(response)
     THEN /\ Raise("claim_streak")
          /\ UNCHANGED <<calls, order>>
     ELSE /\ Call("GET", StepAfterStreak, headers_user, calls)
          /\ UNCHANGED raiseVars
  /\ UNCHANGED <<configVars, init_data_list, processed, idx, headers_user,
                 referralVars, auth_result, streak_seen,
                 user_tickets, tickets, total_points, earned, play_break,
                 sleepVars, lastProcessed, everRequested, everSlept>>

\* lines 154-173 up to the claim's post_request, or on to get_user_info
check_referral_status ==
  /\ pc = "referral_status" /\ hstate = "returned"
  /\ referral_seen' = IF Truthy(response) THEN FlagOf(response, "canClaim") ELSE "failed"
  /\ IF Truthy(response) /\ ~HasGet(response)
     THEN /\ Raise("check_referral_status")
          /\ UNCHANGED <<calls, order, referral_result>>
     ELSE /\ IF Truthy(response) /\ Get(response, "canClaim", FALSE)
             THEN /\ Call("POST", "referral_claim", headers_user, calls)
                  /\ UNCHANGED referral_result
             ELSE /\ Call("GET", "user", headers_user, calls)
                  /\ referral_result' = Result(0, 0)
          /\ UNCHANGED raiseVars
  /\ UNCHANGED <<configVars, init_data_list, processed, idx, headers_user,
                 claim_response, auth_result, streak_seen,
                 user_tickets, tickets, total_points, earned, play_break,
                 sleepVars, lastProcessed, everRequested, everSlept>>

\* lines 162-169: the totals of a truthy claim_response, else 0, 0
ReferralTotals(v) ==
  IF Truthy(v) THEN Result(Get(v, "totalPoints", 0), Get(v, "totalTickets", 0))
  ELSE Result(0, 0)

\* lines 160-167, then get_user_info's get_request
check_referral_claim ==
  /\ pc = "referral_claim" /\ hstate = "returned"
  /\ claim_response' = response
  /\ IF Truthy(response) /\ ~HasGet(response)
     THEN /\ Raise("check_referral_status")
          /\ UNCHANGED <<calls, order, referral_result>>
     ELSE /\ Call("GET", "user", headers_user, calls)
          /\ referral_result' = ReferralTotals(response)
          /\ UNCHANGED raiseVars
  /\ UNCHANGED <<configVars, init_data_list, processed, idx, headers_user,
                 referral_seen, auth_result, streak_seen,
                 user_tickets, tickets, total_points, earned, play_break,
                 sleepVars, lastProcessed, everRequested, everSlept>>

\* tickets as get_user_info returns it: lines 124-144
UserTickets(v) == IF Truthy(v) THEN Get(v, "tickets", 0) ELSE 0

\* lines 124-144 and 239-243, up to play_game's first post_request
get_user_info ==
  /\ pc = "user" /\ hstate = "returned"
  /\ referral_seen' = "unset" /\ claim_response' = NoneV /\ referral_result' = NoResult
  /\ IF Truthy(response) /\ ~HasGet(response)
     THEN /\ Raise("get_user_info")
          /\ UNCHANGED <<calls, order, user_tickets, tickets, lastProcessed, everSlept>>
     ELSE /\ user_tickets' = UserTickets(response)
          /\ tickets' = UserTickets(response)
          /\ IF UserTickets(response) > 0 /\ PlayAgain(UserTickets(response))
             THEN /\ Call("POST", "play", headers_user, calls)
                  /\ everSlept' = TRUE
                  /\ UNCHANGED lastProcessed
             ELSE /\ Return
                  /\ UNCHANGED <<calls, order, everSlept>>
          /\ UNCHANGED raiseVars
  /\ UNCHANGED <<configVars, init_data_list, processed, idx, headers_user, auth_result, streak_seen,
                 total_points, earned, play_break, sleepVars, everRequested>>

\* lines 183-200: one turn of the while loop after post_request has returned
play_game ==
  /\ pc = "play" /\ hstate = "returned"
  /\ IF Truthy(response) /\ ~HasGet(response)
     THEN /\ Raise("play_game")
          /\ UNCHANGED <<calls, order, tickets, total_points, earned, play_break,
                         lastProcessed>>
     ELSE /\ IF Truthy(response)
             THEN /\ total_points' = Accumulate(total_points, Get(response, "points", 0))
                  /\ earned' = Append(earned, Get(response, "points", 0))
                  /\ tickets' = tickets - 1
                  /\ UNCHANGED play_break
                  /\ IF PlayAgain(tickets - 1)
                     THEN Call("POST", "play", headers_user, calls) /\ UNCHANGED lastProcessed
                     ELSE Return /\ UNCHANGED <<calls, order>>
             ELSE /\ play_break' = IF lastOutcome = "fail" THEN "failed" ELSE "empty"
                  /\ UNCHANGED <<tickets, total_points, earned>>
                  /\ IF AfterPlayError(tickets)
                     THEN Call("POST", "play", headers_user, calls) /\ UNCHANGED lastProcessed
                     ELSE Return /\ UNCHANGED <<calls, order>>
          /\ UNCHANGED raiseVars
  /\ UNCHANGED <<configVars, init_data_list, processed, idx, headers_user,
                 referralVars, auth_result, streak_seen,
                 user_tickets, sleepVars, everRequested, everSlept>>

\* ---- the outer driver -------------------------------------------------------
\* the for loop ends after every credential and never sleeps long (a faulty variant)
NextAfterAccountNoRunSleep(i, n) == "for"
\* lines 257-263: the next credential, or the between-runs sleep after the last
NextAfterAccount(i, n) == IF i < n THEN "for" ELSE "sleep_runs"

\* the for loop starts over after every credential (a faulty variant)
NextIndexFirst(i, n) == 1
\* line 257: for init_data in init_data_list, inside while True
NextIndex(i, n) == IF i < n THEN i + 1 ELSE 1

\* lines 250-256
main ==
  /\ pc = "main"
  /\ init_data_list' = read_init_data(file)
  /\ IF read_init_data(file) = <<>>
     THEN pc' = "exited" /\ UNCHANGED idx
     ELSE pc' = "for" /\ idx' = 1
  /\ UNCHANGED <<configVars, helperVars, passVars, sleepVars, lastProcessed,
                 processed, everRequested, everSlept, raiseVars>>

\* lines 259-260: time.sleep(SLEEP_BETWEEN_ACCOUNTS), then the for loop goes on
sleep_between_accounts ==
  /\ pc = "sleep_accounts"
  /\ acctSleeps' = acctSleeps + 1
  /\ everSlept' = TRUE
  /\ pc' = NextAfterAccount(idx, Len(init_data_list))
  /\ idx' = NextIndex(idx, Len(init_data_list))
  /\ UNCHANGED <<configVars, init_data_list, helperVars, passVars, runSleeps,
                 lastProcessed, processed, everRequested, raiseVars>>

\* lines 262-263: time.sleep(SLEEP_BETWEEN_RUNS), then the while loop goes on
sleep_between_runs ==
  /\ pc = "sleep_runs"
  /\ runSleeps' = runSleeps + 1
  /\ everSlept' = TRUE
  /\ pc' = "for"
  /\ processed' = <<>>
  /\ UNCHANGED <<configVars, init_data_list, idx, helperVars, passVars,
                 acctSleeps, lastProcessed, everRequested, raiseVars>>

\* lines 269-270: KeyboardInterrupt at any point of the run unwinds every
\* frame, is logged and the process ends
interrupt ==
  /\ pc \notin Terminal
  /\ pc' = "interrupted"
  /\ Idle
  /\ calls' = NoCalls /\ order' = <<>>
  /\ headers_user' = NoSession
  /\ referral_seen' = "unset" /\ claim_response' = NoneV /\ referral_result' = NoResult
  /\ auth_result' = "unset" /\ streak_seen' = "unset"
  /\ user_tickets' = 0 /\ tickets' = 0 /\ total_points' = 0 /\ earned' = <<>>
  /\ play_break' = "none"
  /\ UNCHANGED <<configVars, init_data_list, idx, sleepVars, lastProcessed,
                 processed, everRequested, everSlept, raiseVars>>

Next ==
  \/ main
  \/ process_init_data
  \/ post_request
  \/ get_request
  \/ process_init_data_token
  \/ get_streak_info
  \/ claim_streak
  \/ check_referral_status
  \/ check_referral_claim
  \/ get_user_info
  \/ play_game
  \/ sleep_between_accounts
  \/ sleep_between_runs
  \/ interrupt

Spec == Init /\ [][Next]_vars

\* the steps of the program itself: all of Next but the user's interrupt
Progress ==
  \/ main
  \/ process_init_data
  \/ post_request
  \/ get_request
  \/ process_init_data_token
  \/ get_streak_info
  \/ claim_streak
  \/ check_referral_status
  \/ check_referral_claim
  \/ get_user_info
  \/ play_game
  \/ sleep_between_accounts
  \/ sleep_between_runs

\* the program is sequential and blocking: every transport call returns or
\* raises, every time.sleep ends, and the interpreter runs the next statement
FairSpec == Init /\ [][Next]_vars /\ WF_vars(Progress)

\* ---- properties --------------------------------------------------------------
RECURSIVE Sum(_)
Sum(q) == IF q = <<>> THEN 0 ELSE Head(q) + Sum(Tail(q))

OnlyRegister == [NoCalls EXCEPT !["register"] = 1]
BetweenPasses == {"sleep_accounts", "sleep_runs", "for"}

\* C1: a helper call whose every transport attempt failed has made exactly
\* MAX_RETRIES + 1 transport calls when it returns, and it returns the failure
\* result: None from get_request, (None, None) from post_request.
C1_AllFailedAttempts ==
  (hstate = "returned" /\ lastOutcome = "fail") =>
    /\ attempts = MAX_RETRIES + 1
    /\ response = NoneV
    /\ cookies = "None"

C1_Witness ==
  /\ hstate = "returned" /\ lastOutcome = "fail"
  /\ method = "GET" /\ MAX_RETRIES = 1 /\ attempts = 2
  /\ calls["register"] = 1

C3_PlaysEveryTicket ==
  /\ (pc = "sleep_accounts" /\ user_tickets > 0 /\ play_break = "none") =>
       /\ calls["play"] = user_tickets
       /\ Len(earned) = user_tickets
       /\ total_points = Sum(earned)
       /\ tickets = 0
  /\ (pc = "play" /\ hstate = "returned" /\ waits = 0) => attempts = 1

C3_Witness ==
  /\ pc = "sleep_accounts" /\ user_tickets = 3 /\ play_break = "none"
  /\ earned = <<10, 10, 10>> /\ total_points = 30 /\ calls["play"] = 3

\* C4: once the k-th play call of a pass has returned the failure result, no
\* further play call is made in the pass (k calls in all), play_game's total is
\* the sum of the points of the k-1 successful plays, and the tickets not
\* played are still there.
C4_StopsAtFailedPlay ==
  play_break = "failed" =>
    /\ pc \in BetweenPasses
    /\ calls["play"] = Len(earned) + 1
    /\ total_points = Sum(earned)
    /\ tickets = user_tickets - Len(earned)
    /\ tickets > 0

C4_Witness ==
  /\ play_break = "failed" /\ pc = "sleep_accounts"
  /\ calls["play"] = 2 /\ earned = <<10>> /\ total_points = 10
  /\ user_tickets = 3 /\ tickets = 2

\* a file with no line, or whose every line is empty or whitespace only
BlankOnly(f) ==
  \A i \in 1..Len(f.lines) : \A j \in 1..Len(f.lines[i]) : f.lines[i][j] \in Whitespace

\* C5: with a credential file that is missing or holds only blank lines, the
\* list main reads is empty, main returns before its loop, and no transport
\* call and no sleep is ever made.
C5_BlankFileNoNetwork ==
  (~file.exists \/ BlankOnly(file)) =>
    /\ init_data_list = <<>>
    /\ pc \in {"main", "exited", "interrupted"}
    /\ calls = NoCalls
    /\ ~everRequested
    /\ ~everSlept

C5_Witness ==
  /\ pc = "exited" /\ file.exists
  /\ file.lines = << <<>>, <<" ">> >>
  /\ init_data_list = <<>> /\ ~everRequested /\ ~everSlept

\* C6: whenever a credential is about to be processed after another one, the
\* driver has slept the between-accounts interval at least once since that one's
\* pass began; before the first credential of a new pass it has also slept the
\* between-runs interval exactly once, and between two credentials of one pass
\* it has not.
C6_SleepsBetweenCredentials ==
  (pc = "for" /\ lastProcessed # 0) =>
    /\ acctSleeps >= 1
    /\ (idx = 1 => lastProcessed = Len(init_data_list) /\ runSleeps = 1)
    /\ (idx > 1 => lastProcessed = idx - 1 /\ runSleeps = 0)

C6_Witness ==
  /\ Len(init_data_list) = 2 /\ pc = "for" /\ idx = 1 /\ lastProcessed = 2
  /\ acctSleeps = 1 /\ runSleeps = 1

\* C7: after the auth call of a pass returned the failure result, the pass is
\* over: no other endpoint has been called in it, process_init_data has
\* returned to the driver and nothing was raised.
C7_AuthFailureAborts ==
  auth_result = "failed" =>
    /\ pc \in BetweenPasses
    /\ calls = OnlyRegister
    /\ raisedIn = "none"

C7_Witness ==
  /\ auth_result = "failed" /\ pc = "sleep_accounts"
  /\ calls = OnlyRegister /\ lastProcessed = idx

WorkflowSteps ==
  {"get_streak_info", "claim_streak", "check_referral_status", "get_user_info",
   "play_game"}

\* C8: no workflow step raises on a failure result, a JSON object or the raw
\* text post_request returns for a non-JSON body.
C8_StepsNeverRaise ==
  raisedIn \in WorkflowSteps => raiseCause \notin {"none", "dict", "text"}

\* C9: neither a failure result nor a non-JSON response inside an account's
\* pass ends the run: the driver is never stopped by an exception that one of
\* them caused.
C9_FailuresNeverStopLoop ==
  pc = "crashed" => raiseCause \notin {"none", "text"}

\* C10 as stated: a helper that got a 2xx response with a non-JSON body makes
\* no other attempt and returns an empty result, one that sends its caller down
\* the failure branch as the result after exhausted retries does.
C10_NonJsonIsFailureResult ==
  lastOutcome = "nonjson" =>
    /\ hstate = "returned"
    /\ ~Truthy(response)

\* C10 as amended: a 2xx response with a non-JSON body is never retried;
\* get_request returns None for it, as after exhausted retries, and
\* post_request returns the body text together with the response's cookies.
C10_NonJsonByHelper ==
  lastOutcome = "nonjson" =>
    /\ hstate = "returned"
    /\ attempts = waits + 1
    /\ (method = "GET" => response = NoneV)
    /\ (method = "POST" => response.kind = "str" /\ cookies = "jar")

C10_Witness ==
  /\ lastOutcome = "nonjson" /\ hstate = "returned"
  /\ method = "POST" /\ pc = "streak_claim" /\ response = StrV(1)

\* C11: a helper call never makes more than MAX_RETRIES + 1 transport attempts;
\* while it runs every attempt so far has failed and has been followed by one
\* wait of 5 seconds, so an attempt is never made after a successful one and
\* every attempt but the first is preceded by exactly one such wait; when it
\* returns after a successful attempt it returns what that attempt produced,
\* and it returns after a failed one only when MAX_RETRIES + 1 have failed.
C11_RetryDiscipline ==
  /\ attempts <= MAX_RETRIES + 1
  /\ retries = waits
  /\ waited = 5 * waits
  /\ hstate = "running" =>
       /\ lastOutcome \in {"none", "fail"}
       /\ waits = attempts
  /\ hstate = "returned" =>
       /\ waits = attempts - 1
       /\ lastOutcome = "fail" => attempts = MAX_RETRIES + 1 /\ response = NoneV
       /\ lastOutcome = "json" => response = body
       /\ lastOutcome = "nonjson" =>
            response = (IF method = "POST" THEN body ELSE NoneV)

C11_Witness ==
  /\ hstate = "returned" /\ lastOutcome = "json" /\ Truthy(response)
  /\ MAX_RETRIES = 1 /\ attempts = 2 /\ waits = 1 /\ waited = 5
  /\ url = "user"


\* place of an endpoint in the order of a pass
Rank(u) ==
  CASE u = "register" -> 1 [] u = "streak" -> 2 [] u = "streak_claim" -> 3
    [] u = "referral_status" -> 4 [] u = "referral_claim" -> 5
    [] u = "user" -> 6 [] OTHER -> 7
\* the endpoint that must have been called before u is
Before(u) ==
  CASE u = "streak" -> "register" [] u = "streak_claim" -> "streak"
    [] u = "referral_status" -> "streak" [] u = "referral_claim" -> "referral_status"
    [] u = "user" -> "referral_status" [] u = "play" -> "user"
    [] OTHER -> "register"
Called == {order[i] : i \in DOMAIN order}

\* C12: the endpoints of a pass are called in the order register, streak,
\* streak claim, referral status, referral claim, user, play (play alone may
\* repeat), each after the step that precedes it and the two claims only when
\* their status said claimable; one request is in flight at most, it belongs to
\* the step the pass is at, and none is in flight when the driver is between
\* two credentials
C12_FixedOrder ==
  /\ \A i, j \in DOMAIN order :
       i < j => \/ Rank(order[i]) < Rank(order[j])
                \/ order[i] = "play" /\ order[j] = "play"
  /\ \A u \in Called : Before(u) \in Called
  /\ \A u \in Endpoints : calls[u] = Cardinality({i \in DOMAIN order : order[i] = u})
  /\ "streak_claim" \in Called => streak_seen = "true"
  /\ pc = "referral_claim" => referral_seen = "true"
  /\ hstate # "idle" => pc = url /\ order # <<>> /\ order[Len(order)] = url
  /\ pc \in BetweenPasses \cup Terminal \cup {"main"} => hstate = "idle"

C12_Witness ==
  /\ pc = "play" /\ hstate = "returned" /\ idx = 2
  /\ order = <<"register", "streak", "streak_claim", "referral_status",
               "referral_claim", "user", "play", "play">>


\* C13: the referral claim is called once when the status said canClaim and not
\* at all otherwise; check_referral_status has returned 0, 0 when the status
\* fetch failed, canClaim was not true or the claim failed, and the claim's
\* totalPoints and totalTickets whenever the claim gave a JSON object or raw text.
C13_ReferralClaim ==
  /\ referral_seen # "unset" =>
       calls["referral_claim"] = IF referral_seen = "true" THEN 1 ELSE 0
  /\ pc = "user" =>
       /\ referral_result.set
       /\ referral_seen # "true" \/ ~Truthy(claim_response) =>
            referral_result = Result(0, 0)
  /\ Truthy(claim_response) /\ raiseCause # "str" =>
       referral_result = Result(Get(claim_response, "totalPoints", 0),
                                Get(claim_response, "totalTickets", 0))


\* C14: play_game calls the play endpoint only in a pass whose user-info fetch
\* was made and reported tickets > 0, and never more often than that ticket
\* count; its local tickets is the reported count less one per successful play,
\* never below 0, and a failed play leaves it as it was.
C14_PlaysWithinTickets ==
  /\ calls["play"] > 0 => calls["user"] = 1 /\ user_tickets > 0
  /\ calls["play"] <= user_tickets
  /\ calls["play"] <= Len(earned) + 1
  /\ tickets = user_tickets - Len(earned)
  /\ tickets >= 0

C14_Witness ==
  /\ pc = "sleep_accounts" /\ user_tickets = MaxTickets
  /\ calls["play"] = MaxTickets /\ Len(earned) = MaxTickets - 1
  /\ play_break = "failed" /\ tickets = 1


AuthenticatedEndpoints == Endpoints \ {"register"}

\* C15: every pass begins with its own auth call, which carries no session,
\* and every request to an authenticated endpoint carries the token and the
\* cookies the auth call of the same pass and credential returned, never those
\* of an earlier pass or of another credential.
C15_OwnSession ==
  /\ order # <<>> => order[1] = "register" /\ calls["register"] = 1
  /\ hstate # "idle" /\ url = "register" => headers = NoSession
  /\ hstate # "idle" /\ url \in AuthenticatedEndpoints =>
       /\ auth_result = "ok"
       /\ headers = [token |-> Issued, cookies |-> Issued]
       /\ headers_user = headers

C15_Witness ==
  /\ pc = "play" /\ hstate = "running" /\ attempts = 1
  /\ idx = 1 /\ lastProcessed = 2
  /\ headers = [token |-> <<1, 2>>, cookies |-> <<1, 2>>]


\* the run was ended by an exception or by the user
Stopped == pc \in {"crashed", "interrupted"}
\* process_init_data has just been called with credential number i
Processing(i) == pc = "register" /\ idx = i /\ hstate = "running" /\ attempts = 0

\* what C16 says of every state: the driver ends on its own only when the list
\* is empty, the list stays as read at startup, the credentials of a pass are
\* taken once each in file order, and the long sleep is slept once between two
\* passes and never inside one
C16_PassShape ==
  /\ pc = "exited" => init_data_list = <<>>
  /\ pc = "exited" \/ idx > 0 => init_data_list = read_init_data(file)
  /\ Len(processed) <= Len(init_data_list)
  /\ processed = SubSeq(init_data_list, 1, Len(processed))
  /\ pc \in Endpoints \cup {"sleep_accounts"} => Len(processed) = idx
  /\ pc = "for" => Len(processed) = idx - 1
  /\ pc = "sleep_runs" => processed = init_data_list /\ runSleeps = 0
  /\ pc = "for" /\ idx > 1 => runSleeps = 0
  /\ pc = "for" /\ idx = 1 /\ lastProcessed # 0 =>
       runSleeps = 1 /\ lastProcessed = Len(init_data_list)

\* C16: with a non-empty list, unless an exception or the user ends the run,
\* the driver goes on for ever and calls process_init_data with every
\* credential again and again; every pass takes every credential once in file
\* order from the list read at startup, with one long sleep between passes.
C16_EveryCredentialForever ==
  /\ []C16_PassShape
  /\ \A i \in 1..MaxLines :
       []<>(Stopped \/ i > Len(init_data_list) \/ Processing(i))

C16_Witness ==
  /\ Processing(1) /\ lastProcessed = 2 /\ Len(init_data_list) = 2
  /\ processed = <<init_data_list[1]>>
  /\ everSlept

====
